---- MODULE Spec2Model ----
(***************************************************************************)
(* Thermal-cycle temperature profile generator (MAIN01.py: command line,   *)
(* web.py: web form).                                                      *)
(*                                                                         *)
(* calculate_temperature_profile walks the phases initial hold, per cycle  *)
(* (ramp to high, hold high, ramp to low, hold low), recovery ramp and     *)
(* recovery hold, appending (time, temperature, description) points.       *)
(* create_chart_png / create_chart_image then annotate every key point.    *)
(*                                                                         *)
(* Numbers.  The program computes in floating-point hours.  The model      *)
(* keeps time as an integer count of 1/TimeDen hour and admits only the    *)
(* configurations whose ramp durations are whole on that grid              *)
(* (ExactRamps), so that every sum and quotient of the code is exact here. *)
(* Chart coordinates are kept in 1/Scale of the data unit so that the      *)
(* 5% autoscale margin and the 2%, 3% and 6% fractions are integers.       *)
(* Point descriptions are the source's strings put into English.           *)
(***************************************************************************)
EXTENDS Integers, Sequences, FiniteSets, TLC

VARIABLES
    variant,        \* "cli" (MAIN01.py) or "web" (web.py)
    params,         \* the params dict
    pc,             \* control position
    outcome,        \* calculate_temperature_profile: "running", "ok", "error"
    profile,        \* local list profile
    key_points,     \* local list key_points
    current_time,
    current_temp,
    cycle,          \* loop variable of `for cycle in range(cycles)`
    high_time,
    low_time,
    cycle_type,
    chart_profile,  \* argument profile of the chart function
    key_indices,    \* sorted(set(key_points)) inside the chart function
    ki,             \* position of the annotation loop in key_indices (1-based)
    used_positions, \* the list used_positions of (x, y) pairs
    markers,        \* plt.scatter calls
    guides,         \* plt.axvline / plt.axhline pairs
    time_labels,    \* plt.text calls of the time axis
    temp_labels,    \* plt.text calls of the temperature axis
    chart_result    \* "none", "ok" (True / buffer), "error" (False / None)

calc_vars == <<params, outcome, profile, key_points, current_time,
               current_temp, cycle, high_time, low_time, cycle_type>>
chart_vars == <<chart_profile, key_indices, ki, used_positions, markers,
                guides, time_labels, temp_labels, chart_result>>
vars == <<variant, pc, calc_vars, chart_vars>>

----------------------------------------------------------------------------
(* Bounds and grids *)

MaxCycles == 3

\* one hour is TimeDen time units
TimeDen == 12

\* chart coordinates are data units times Scale
Scale == 10000

Abs(n) == IF n < 0 THEN -n ELSE n

RECURSIVE SeqMin(_)
SeqMin(s) ==
    IF Len(s) = 1 THEN s[1]
    ELSE LET m == SeqMin(Tail(s)) IN IF s[1] < m THEN s[1] ELSE m

RECURSIVE SeqMax(_)
SeqMax(s) ==
    IF Len(s) = 1 THEN s[1]
    ELSE LET m == SeqMax(Tail(s)) IN IF s[1] > m THEN s[1] ELSE m

----------------------------------------------------------------------------
(* calculate_temperature_profile *)

\* mutant: the two rates exchanged
RampRate_Swapped(temp_diff, p) ==
    IF temp_diff > 0 THEN p.cool_rate ELSE p.heat_rate

\* the rate of a ramp: heat_rate if ascending else cool_rate
RampRate(temp_diff, p) ==
    IF temp_diff > 0 THEN p.heat_rate ELSE p.cool_rate

\* mutant: the abs() dropped
RampTime_Signed(temp_diff, p) ==
    (temp_diff * TimeDen) \div RampRate(temp_diff, p)

\* time_change = abs(temp_diff) / rate, in time units
RampTime(temp_diff, p) ==
    (Abs(temp_diff) * TimeDen) \div RampRate(temp_diff, p)

\* mutant: the last-cycle test made before the first-cycle test
CycleKind_LastFirst(c, cycles) ==
    IF c = cycles - 1 THEN "last"
    ELSE IF c = 0 THEN "first"
    ELSE "middle"

\* the if / elif / else that selects the cycle kind
CycleKind(c, cycles) ==
    IF c = 0 THEN "first"
    ELSE IF c = cycles - 1 THEN "last"
    ELSE "middle"

HighTime(c, p) ==
    CASE CycleKind(c, p.cycles) = "first" -> p.first_high_time
      [] CycleKind(c, p.cycles) = "last" -> p.last_high_time
      [] OTHER -> p.middle_high_time

\* mutant: the low hold given the high durations
LowTime_High(c, p) ==
    CASE CycleKind(c, p.cycles) = "first" -> p.first_high_time
      [] CycleKind(c, p.cycles) = "last" -> p.last_high_time
      [] OTHER -> p.middle_high_time

LowTime(c, p) ==
    CASE CycleKind(c, p.cycles) = "first" -> p.first_low_time
      [] CycleKind(c, p.cycles) = "last" -> p.last_low_time
      [] OTHER -> p.middle_low_time

CycleType(c, cycles) ==
    CASE CycleKind(c, cycles) = "first" -> "first_cycle"
      [] CycleKind(c, cycles) = "last" -> "last_cycle"
      [] OTHER -> "middle_cycle" \o ToString(c)

\* mutant: the final cycle given a low phase too
HasLowPhase_Inclusive(c, cycles) == c <= cycles - 1

\* `if cycle < params['cycles'] - 1`: the cycle has a low phase
HasLowPhase(c, cycles) == c < cycles - 1

\* profile.append((time, temp, desc))
AppendPoint(prof, time, temp, desc) ==
    Append(prof, [time |-> time, temp |-> temp, desc |-> desc])

\* mutant: the index taken one too far
AppendKey_OffByOne(kp, prof) == Append(kp, Len(prof))

\* key_points.append(len(profile) - 1), prof being the list after the append
AppendKey(kp, prof) == Append(kp, Len(prof) - 1)

\* a configuration whose ramps (those its run performs) all last a whole
\* number of time units
Exact(temp_diff, p) ==
    \/ temp_diff = 0
    \/ RampRate(temp_diff, p) = 0
    \/ (Abs(temp_diff) * TimeDen) % Abs(RampRate(temp_diff, p)) = 0

ExactRamps(p) ==
    /\ p.cycles >= 1 => Exact(p.high_temp - p.initial_temp, p)
    /\ p.cycles >= 2 => Exact(p.low_temp - p.high_temp, p)
    /\ p.cycles >= 2 => Exact(p.high_temp - p.low_temp, p)
    /\ p.cycles >= 1 => Exact(p.recovery_temp - p.high_temp, p)
    /\ p.cycles < 1 => Exact(p.recovery_temp - p.initial_temp, p)

\* the form's default values (web.py main), rates already in degrees per hour
Scenario ==
    [initial_temp |-> 70, initial_time |-> 6,
     recovery_temp |-> 40, recovery_time |-> 6,
     high_temp |-> 100, high_tolerance |-> 2,
     low_temp |-> -20, low_tolerance |-> 2,
     first_high_time |-> 3, first_low_time |-> 24,
     last_high_time |-> 3, last_low_time |-> 24,
     middle_high_time |-> 12, middle_low_time |-> 12,
     heat_rate |-> 180, cool_rate |-> 240, cycles |-> 3]

\* The configurations get_user_input lets through: temperatures of either
\* sign, every duration, rate and the cycle count >= 0 (zero included).
Configs ==
    { p \in [initial_temp : {70, 100}, initial_time : {0, 6},
             recovery_temp : {40, 100}, recovery_time : {6},
             high_temp : {100, 40}, high_tolerance : {2},
             low_temp : {-20, 100}, low_tolerance : {2},
             first_high_time : {0, 3}, first_low_time : {24},
             last_high_time : {3, 12}, last_low_time : {24},
             middle_high_time : {12}, middle_low_time : {12},
             heat_rate : {0, 60, 180}, cool_rate : {0, 240},
             cycles : 0..MaxCycles] : ExactRamps(p) }

\* mutant: a ramp of zero length still emits its point
Ramp_AlwaysEmit(target, desc, next) ==
    LET temp_diff == target - current_temp IN
    IF temp_diff # 0 /\ RampRate(temp_diff, params) = 0
    THEN /\ outcome' = "error"
         /\ pc' = "returned"
         /\ UNCHANGED <<profile, key_points, current_time, current_temp>>
    ELSE LET t == IF temp_diff # 0
                  THEN current_time + RampTime(temp_diff, params)
                  ELSE current_time
             prof == AppendPoint(profile, t, target, desc)
         IN /\ current_time' = t
            /\ profile' = prof
            /\ key_points' = AppendKey(key_points, prof)
            /\ current_temp' = target
            /\ pc' = next
            /\ UNCHANGED outcome

\* one ramp phase towards target: skipped when already there, division by
\* zero caught by the function's except clause (return None, None)
Ramp(target, desc, next) ==
    LET temp_diff == target - current_temp IN
    IF temp_diff # 0
    THEN IF RampRate(temp_diff, params) = 0
         THEN /\ outcome' = "error"
              /\ pc' = "returned"
              /\ UNCHANGED <<profile, key_points, current_time, current_temp>>
         ELSE LET t == current_time + RampTime(temp_diff, params)
                  prof == AppendPoint(profile, t, target, desc)
              IN /\ current_time' = t
                 /\ profile' = prof
                 /\ key_points' = AppendKey(key_points, prof)
                 /\ current_temp' = target
                 /\ pc' = next
                 /\ UNCHANGED outcome
    ELSE /\ pc' = next
         /\ UNCHANGED <<outcome, profile, key_points, current_time, current_temp>>

\* one hold phase of the given duration
Hold(duration, desc) ==
    LET t == current_time + duration
        prof == AppendPoint(profile, t, current_temp, desc)
    IN /\ current_time' = t
       /\ profile' = prof
       /\ key_points' = AppendKey(key_points, prof)

\* main calls calculate_temperature_profile: locals and the initial hold
InitialHold ==
    /\ pc = "main"
    /\ LET p1 == AppendPoint(<<>>, 0, params.initial_temp, "initial_start")
           k1 == AppendKey(<<>>, p1)
           t == 0 + params.initial_time
           p2 == AppendPoint(p1, t, params.initial_temp, "initial_end")
           k2 == AppendKey(k1, p2)
       IN /\ profile' = p2
          /\ key_points' = k2
          /\ current_time' = t
          /\ current_temp' = params.initial_temp
    /\ outcome' = "running"
    /\ cycle' = 0
    /\ pc' = "loop"
    /\ UNCHANGED <<variant, params, high_time, low_time, cycle_type, chart_vars>>

\* head of `for cycle in range(params['cycles'])` and the selection of the
\* cycle's hold durations and description prefix
CycleSelect ==
    /\ pc = "loop"
    /\ cycle < params.cycles
    /\ high_time' = HighTime(cycle, params)
    /\ low_time' = LowTime(cycle, params)
    /\ cycle_type' = CycleType(cycle, params.cycles)
    /\ pc' = "ramp_high"
    /\ UNCHANGED <<variant, params, outcome, profile, key_points,
                   current_time, current_temp, cycle, chart_vars>>

LoopExit ==
    /\ pc = "loop"
    /\ ~(cycle < params.cycles)
    /\ pc' = "recovery_ramp"
    /\ UNCHANGED <<variant, calc_vars, chart_vars>>

RampToHigh ==
    /\ pc = "ramp_high"
    /\ Ramp(params.high_temp, cycle_type \o "_high_reached", "hold_high")
    /\ UNCHANGED <<variant, params, cycle, high_time, low_time, cycle_type,
                   chart_vars>>

HoldHigh ==
    /\ pc = "hold_high"
    /\ Hold(high_time, cycle_type \o "_high_end")
    /\ IF HasLowPhase(cycle, params.cycles)
       THEN pc' = "ramp_low" /\ cycle' = cycle
       ELSE pc' = "loop" /\ cycle' = cycle + 1
    /\ UNCHANGED <<variant, params, outcome, current_temp, high_time,
                   low_time, cycle_type, chart_vars>>

RampToLow ==
    /\ pc = "ramp_low"
    /\ Ramp(params.low_temp, cycle_type \o "_low_reached", "hold_low")
    /\ UNCHANGED <<variant, params, cycle, high_time, low_time, cycle_type,
                   chart_vars>>

HoldLow ==
    /\ pc = "hold_low"
    /\ Hold(low_time, cycle_type \o "_low_end")
    /\ cycle' = cycle + 1
    /\ pc' = "loop"
    /\ UNCHANGED <<variant, params, outcome, current_temp, high_time,
                   low_time, cycle_type, chart_vars>>

RecoveryRamp ==
    /\ pc = "recovery_ramp"
    /\ Ramp(params.recovery_temp, "recovery_reached", "recovery_hold")
    /\ UNCHANGED <<variant, params, cycle, high_time, low_time, cycle_type,
                   chart_vars>>

\* the recovery hold and `return profile, key_points`
RecoveryHold ==
    /\ pc = "recovery_hold"
    /\ Hold(params.recovery_time, "recovery_end")
    /\ outcome' = "ok"
    /\ pc' = "returned"
    /\ UNCHANGED <<variant, params, current_temp, cycle, high_time,
                   low_time, cycle_type, chart_vars>>

\* what the caller receives: (profile, key_points) or (None, None)
Returned ==
    IF outcome = "ok" THEN <<profile, key_points>> ELSE <<"None", "None">>

----------------------------------------------------------------------------
(* create_chart_png (MAIN01.py) / create_chart_image (web.py) *)

Range(s) == { s[i] : i \in 1..Len(s) }

RECURSIVE SortedSeq(_)
SortedSeq(S) ==
    IF S = {} THEN <<>>
    ELSE LET m == CHOOSE x \in S : \A y \in S : x <= y
         IN <<m>> \o SortedSeq(S \ {m})

\* key_indices = list(set(key_points)); key_indices.sort()
KeyIndices(kp) == SortedSeq(Range(kp))

Times(prof) == [i \in 1..Len(prof) |-> prof[i].time]
Temps(prof) == [i \in 1..Len(prof) |-> prof[i].temp]

\* The axis limits the annotation loop reads with plt.xlim() / plt.ylim():
\* the autoscaled limits of the plotted curve, that is the data interval
\* widened by the 5% margin on each side; an interval of zero width is first
\* expanded by 5% of its value (by 0.05 when the value is 0).  zero_unit is
\* the chart length of one data unit of magnitude 1.
AutoLimits(vals, zero_unit) ==
    LET lo == SeqMin(vals)
        hi == SeqMax(vals)
    IN IF hi > lo
       THEN <<Scale * lo - (Scale \div 20) * (hi - lo),
              Scale * hi + (Scale \div 20) * (hi - lo)>>
       ELSE IF lo = 0
       THEN <<-((55 * zero_unit) \div 1000), (55 * zero_unit) \div 1000>>
       ELSE <<Scale * lo - ((55 * Scale) \div 1000) * Abs(lo),
              Scale * lo + ((55 * Scale) \div 1000) * Abs(lo)>>

XLim(prof) == AutoLimits(Times(prof), Scale * TimeDen)
YLim(prof) == AutoLimits(Temps(prof), Scale)

\* lim[0] + (lim[1] - lim[0]) * pct / 100
Inset(lim, pct) == lim[1] + ((lim[2] - lim[1]) * pct) \div 100

\* any(abs(x_pos - used_x) < 0.03 * (xlim[1] - xlim[0]) for (used_x, _) in used)
TimeOverlap(x_pos, used, xl) ==
    \E i \in 1..Len(used) : 100 * Abs(x_pos - used[i][1]) < 3 * (xl[2] - xl[1])

\* any(abs(y_pos - used_y) < 0.03 * (ylim[1] - ylim[0]) for (_, used_y) in used)
TempOverlap(y_pos, used, yl) ==
    \E i \in 1..Len(used) : 100 * Abs(y_pos - used[i][2]) < 3 * (yl[2] - yl[1])

\* the tier of a label: the 6% inset on a collision, the 2% inset otherwise
Tier(collision) == IF collision THEN 6 ELSE 2

\* mutant: no position is ever recorded
Commit_Never(used, collision, pos) == used

\* `else: used_positions.append(...)`: only a first-tier label is recorded
Commit(used, collision, pos) == IF collision THEN used ELSE Append(used, pos)

\* mutant: a colliding label is left out
PlaceLabel_Suppress(labels, idx, collision, x, y) ==
    IF collision THEN labels
    ELSE Append(labels, [idx |-> idx, tier |-> 2, x |-> x, y |-> y])

\* plt.text(...) of one axis label
PlaceLabel(labels, idx, collision, x, y) ==
    Append(labels, [idx |-> idx, tier |-> Tier(collision), x |-> x, y |-> y])

\* main: `if not profile or not key_points: return`
MainReturn ==
    /\ pc = "returned"
    /\ \/ outcome # "ok"
       \/ Len(profile) = 0
       \/ Len(key_points) = 0
    /\ pc' = "done"
    /\ UNCHANGED <<variant, calc_vars, chart_vars>>

\* main passes the computed profile to the chart function (the spreadsheet
\* export in between does not touch the profile)
ChartCall ==
    /\ pc = "returned"
    /\ outcome = "ok"
    /\ Len(profile) # 0
    /\ Len(key_points) # 0
    /\ chart_profile' = profile
    /\ key_indices' = KeyIndices(key_points)
    /\ ki' = 1
    /\ used_positions' = <<>>
    /\ pc' = "chart_loop"
    /\ UNCHANGED <<variant, calc_vars, markers, guides, time_labels,
                   temp_labels, chart_result>>

\* the chart function called on its own with an empty profile and no key
\* points
ChartEmptyCall ==
    /\ pc = "main"
    /\ chart_profile' = <<>>
    /\ key_indices' = KeyIndices(<<>>)
    /\ ki' = 1
    /\ used_positions' = <<>>
    /\ pc' = "chart_loop"
    /\ UNCHANGED <<variant, calc_vars, markers, guides, time_labels,
                   temp_labels, chart_result>>

\* one iteration of `for idx in key_indices`
ChartStep ==
    /\ pc = "chart_loop"
    /\ ki <= Len(key_indices)
    /\ LET idx == key_indices[ki] IN
       IF idx >= Len(chart_profile)
       THEN \* times[idx] raises IndexError, caught by the except clause
            /\ chart_result' = "error"
            /\ pc' = "done"
            /\ UNCHANGED <<ki, used_positions, markers, guides, time_labels,
                           temp_labels>>
       ELSE LET time == chart_profile[idx + 1].time
                temp == chart_profile[idx + 1].temp
                xl == XLim(chart_profile)
                yl == YLim(chart_profile)
                x_pos == Scale * time
                overlap == TimeOverlap(x_pos, used_positions, xl)
                y_text_pos == Inset(yl, Tier(overlap))
                used1 == Commit(used_positions, overlap, <<x_pos, y_text_pos>>)
                y_pos == Scale * temp
                y_overlap == TempOverlap(y_pos, used1, yl)
                x_text_pos == Inset(xl, Tier(y_overlap))
                used2 == Commit(used1, y_overlap, <<x_text_pos, y_pos>>)
            IN /\ markers' = Append(markers, [idx |-> idx, x |-> x_pos, y |-> y_pos])
               /\ guides' = Append(guides, [idx |-> idx, v |-> x_pos, h |-> y_pos])
               /\ time_labels' = PlaceLabel(time_labels, idx, overlap, x_pos, y_text_pos)
               /\ temp_labels' = PlaceLabel(temp_labels, idx, y_overlap, x_text_pos, y_pos)
               /\ used_positions' = used2
               /\ ki' = ki + 1
               /\ pc' = "chart_loop"
               /\ UNCHANGED chart_result
    /\ UNCHANGED <<variant, calc_vars, chart_profile, key_indices>>

\* what follows the loop.  MAIN01.py sets the axes from max(times),
\* min(temps) and max(temps), which raise ValueError on an empty profile
\* (return False); web.py saves the figure without reading the profile.
ChartFinishResult(v, prof) ==
    IF v = "cli" /\ Len(prof) = 0 THEN "error" ELSE "ok"

ChartFinish ==
    /\ pc = "chart_loop"
    /\ ~(ki <= Len(key_indices))
    /\ chart_result' = ChartFinishResult(variant, chart_profile)
    /\ pc' = "done"
    /\ UNCHANGED <<variant, calc_vars, chart_profile, key_indices, ki,
                   used_positions, markers, guides, time_labels, temp_labels>>

----------------------------------------------------------------------------
(* The program *)

\* the state before main calls anything
Fresh ==
    /\ variant \in {"cli", "web"}
    /\ pc = "main"
    /\ outcome = "none"
    /\ profile = <<>>
    /\ key_points = <<>>
    /\ current_time = 0
    /\ current_temp = 0
    /\ cycle = 0
    /\ high_time = 0
    /\ low_time = 0
    /\ cycle_type = ""
    /\ chart_profile = <<>>
    /\ key_indices = <<>>
    /\ ki = 1
    /\ used_positions = <<>>
    /\ markers = <<>>
    /\ guides = <<>>
    /\ time_labels = <<>>
    /\ temp_labels = <<>>
    /\ chart_result = "none"

Init ==
    /\ params \in Configs
    /\ Fresh

\* Configurations that vary the inputs the calculation is said not to read:
\* last_low_time, the two tolerances and the middle-cycle durations.
UnusedConfigs ==
    { p \in [initial_temp : {70}, initial_time : {6},
             recovery_temp : {40, 100}, recovery_time : {6},
             high_temp : {100}, high_tolerance : {0, 2},
             low_temp : {-20, 100}, low_tolerance : {0, 2},
             first_high_time : {3}, first_low_time : {24},
             last_high_time : {3}, last_low_time : {0, 24},
             middle_high_time : {6, 12}, middle_low_time : {6, 12},
             heat_rate : {0, 180}, cool_rate : {240},
             cycles : 0..MaxCycles] : ExactRamps(p) }

InitUnused ==
    /\ params \in UnusedConfigs
    /\ Fresh

Next ==
    \/ InitialHold
    \/ CycleSelect
    \/ LoopExit
    \/ RampToHigh
    \/ HoldHigh
    \/ RampToLow
    \/ HoldLow
    \/ RecoveryRamp
    \/ RecoveryHold
    \/ MainReturn
    \/ ChartCall
    \/ ChartEmptyCall
    \/ ChartStep
    \/ ChartFinish

Spec == Init /\ [][Next]_vars

SpecUnused == InitUnused /\ [][Next]_vars

TypeOK ==
    /\ pc \in {"main", "loop", "ramp_high", "hold_high", "ramp_low",
               "hold_low", "recovery_ramp", "recovery_hold", "returned",
               "chart_loop", "done"}
    /\ outcome \in {"none", "running", "ok", "error"}
    /\ chart_result \in {"none", "ok", "error"}
    /\ Len(key_points) = Len(profile)

----------------------------------------------------------------------------
(* Properties of calculate_temperature_profile *)

\* the documented domain: durations >= 0, both rates > 0, cycles >= 1
InDomain(p) ==
    /\ p.initial_time >= 0 /\ p.recovery_time >= 0
    /\ p.first_high_time >= 0 /\ p.first_low_time >= 0
    /\ p.last_high_time >= 0 /\ p.last_low_time >= 0
    /\ p.middle_high_time >= 0 /\ p.middle_low_time >= 0
    /\ p.heat_rate > 0 /\ p.cool_rate > 0
    /\ p.cycles >= 1

\* C1: for a configuration of the documented domain the profile starts at
\* time 0 and the times of consecutive points never decrease.
C1_MonotonicTime ==
    InDomain(params) =>
        /\ Len(profile) > 0 => profile[1].time = 0
        /\ \A i \in 1..(Len(profile) - 1) : profile[i].time <= profile[i + 1].time

C1_Witness ==
    /\ InDomain(params)
    /\ outcome = "ok"
    /\ params.cycles >= 2
    /\ \E i \in 1..(Len(profile) - 1) :
          /\ profile[i + 1].temp < profile[i].temp
          /\ profile[i].time < profile[i + 1].time

\* C2: a configuration with cycles < 1, heat_rate <= 0 or cool_rate <= 0
\* never yields a profile: the function returns the error outcome.
C2_ErrorOnBadConfig ==
    (params.cycles < 1 \/ params.heat_rate <= 0 \/ params.cool_rate <= 0)
        => outcome # "ok"

\* the number of ramps of a run of cycles >= 1 whose source and target
\* temperatures coincide: the first ramp to high starts from initial_temp,
\* every later ramp to high from low_temp, every ramp to low and the recovery
\* ramp from high_temp
DegenerateRamps(p) ==
    (IF p.initial_temp = p.high_temp THEN 1 ELSE 0)
    + (IF p.low_temp = p.high_temp THEN 2 * (p.cycles - 1) ELSE 0)
    + (IF p.recovery_temp = p.high_temp THEN 1 ELSE 0)

FullCount(p) == 2 + 2 * p.cycles + 2 * (p.cycles - 1) + 2

\* C3 as stated, for the configurations of the documented domain: the
\* returned profile has the full count less two points for every skipped ramp.
C3_PairPerSkippedRamp ==
    (InDomain(params) /\ outcome = "ok" /\ params.cycles >= 1)
        => Len(profile) = FullCount(params) - 2 * DegenerateRamps(params)

\* C3 (amended): for cycles >= 1 the returned profile has
\* 2 + 2*cycles + 2*(cycles-1) + 2 points less one point for every ramp that
\* is skipped because its source and target temperatures coincide.
C3_PointCount ==
    (outcome = "ok" /\ params.cycles >= 1)
        => Len(profile) = FullCount(params) - DegenerateRamps(params)

C3_Witness ==
    /\ outcome = "ok"
    /\ params.cycles = 3
    /\ DegenerateRamps(params) = 5
    /\ Len(profile) = 9

\* (time, temperature) of every point
TimeTemp(prof) == [i \in 1..Len(prof) |-> <<prof[i].time, prof[i].temp>>]

\* C4: the scenario of the form's default values yields exactly these 14
\* points, times in twelfths of an hour.
C4_Scenario ==
    (params = Scenario /\ outcome = "ok") =>
        TimeTemp(profile) =
            << <<0, 70>>, <<6, 70>>, <<8, 100>>, <<11, 100>>, <<17, -20>>,
               <<41, -20>>, <<49, 100>>, <<61, 100>>, <<67, -20>>,
               <<79, -20>>, <<87, 100>>, <<90, 100>>, <<93, 40>>, <<99, 40>> >>

C4_Witness ==
    /\ params = Scenario
    /\ outcome = "ok"
    /\ TimeDen = 12
    /\ Len(profile) = 14

----------------------------------------------------------------------------
(* Properties of the annotation loop *)

\* the key points the loop has handled so far
Handled == ki - 1

\* C5: every key point the loop has handled has exactly one time-axis label,
\* one temperature-axis label, one marker and one pair of guide lines, each
\* label on the 2% or the 6% inset; a collision never suppresses a label.
C5_OneLabelPerAxis ==
    chart_result # "error" =>
        /\ Len(time_labels) = Handled
        /\ Len(temp_labels) = Handled
        /\ Len(markers) = Handled
        /\ Len(guides) = Handled
        /\ \A j \in 1..Handled :
              /\ time_labels[j].idx = key_indices[j]
              /\ temp_labels[j].idx = key_indices[j]
              /\ markers[j].idx = key_indices[j]
              /\ guides[j].idx = key_indices[j]
              /\ time_labels[j].tier \in {2, 6}
              /\ temp_labels[j].tier \in {2, 6}
              /\ time_labels[j].y = Inset(YLim(chart_profile), time_labels[j].tier)
              /\ temp_labels[j].x = Inset(XLim(chart_profile), temp_labels[j].tier)
              /\ \A k \in 1..Handled : key_indices[k] = key_indices[j] => k = j
        /\ (pc = "done" /\ chart_result = "ok") => Handled = Len(key_indices)

C5_Witness ==
    /\ pc = "done"
    /\ chart_result = "ok"
    /\ Len(time_labels) = Len(chart_profile)
    /\ Len(chart_profile) >= 6
    /\ \E j \in 1..Len(time_labels) : time_labels[j].tier = 6
    /\ \E j \in 1..Len(time_labels) : time_labels[j].tier = 2
    /\ \E j \in 1..Len(temp_labels) : temp_labels[j].tier = 6

\* two time-axis positions closer than 3% of the time range
Near(x1, x2) ==
    100 * Abs(x1 - x2) < 3 * (XLim(chart_profile)[2] - XLim(chart_profile)[1])

\* C6 as stated, for the configurations of the documented domain: no two
\* time-axis labels of the same tier, first or second, lie within the 3%
\* threshold of each other.
C6_NoNearPairOnAnyTier ==
    InDomain(params) => \A i, j \in 1..Len(time_labels) :
        (i < j /\ time_labels[i].tier = time_labels[j].tier)
            => ~Near(time_labels[i].x, time_labels[j].x)

\* C6 (amended): no two time-axis labels placed on the first tier (the 2%
\* inset, whose positions are recorded) lie within the 3% threshold of each
\* other; labels bumped to the second tier are not checked against each
\* other and may.
C6_NoNearPairOnFirstTier ==
    \A i, j \in 1..Len(time_labels) :
        (i < j /\ time_labels[i].tier = 2 /\ time_labels[j].tier = 2)
            => ~Near(time_labels[i].x, time_labels[j].x)

C6_Witness ==
    /\ pc = "done"
    /\ chart_result = "ok"
    /\ Cardinality({j \in 1..Len(time_labels) : time_labels[j].tier = 2}) >= 4
    /\ \E i, j \in 1..Len(time_labels) :
          /\ i < j
          /\ time_labels[i].tier = 2
          /\ time_labels[j].tier = 6
          /\ Near(time_labels[i].x, time_labels[j].x)

\* C7: the chart function called with an empty profile and no key points
\* finishes with a success outcome and nothing drawn.
C7_EmptyChartSucceeds ==
    (pc = "done" /\ chart_result # "none" /\ Len(chart_profile) = 0) =>
        /\ chart_result = "ok"
        /\ time_labels = <<>> /\ temp_labels = <<>>
        /\ markers = <<>> /\ guides = <<>>

----------------------------------------------------------------------------
(* Properties of the phases *)

\* C8: at every step key_points is the list 0, 1, .., len(profile)-1: every
\* emitted point is a key point and no other index is recorded; the chart
\* function's key_indices is the same list.
C8_KeyPointsAreAllIndices ==
    /\ key_points = [i \in 1..Len(profile) |-> i - 1]
    /\ pc = "chart_loop" => key_indices = [i \in 1..Len(chart_profile) |-> i - 1]

C8_Witness ==
    /\ outcome = "ok"
    /\ key_points = <<0, 1, 2, 3, 4, 5, 6, 7, 8, 9, 10, 11, 12, 13>>
    /\ pc = "chart_loop"
    /\ Len(key_indices) = 14

\* the profile of a single-cycle run written out phase by phase from the
\* first-cycle durations alone
SingleCycleProfile(p) ==
    LET t1 == p.initial_time
        d1 == p.high_temp - p.initial_temp
        t2 == IF d1 # 0 THEN t1 + RampTime(d1, p) ELSE t1
        t3 == t2 + p.first_high_time
        d2 == p.recovery_temp - p.high_temp
        t4 == IF d2 # 0 THEN t3 + RampTime(d2, p) ELSE t3
        t5 == t4 + p.recovery_time
        Pt(t, T, d) == <<[time |-> t, temp |-> T, desc |-> d]>>
    IN Pt(0, p.initial_temp, "initial_start")
       \o Pt(t1, p.initial_temp, "initial_end")
       \o (IF d1 # 0 THEN Pt(t2, p.high_temp, "first_cycle_high_reached") ELSE <<>>)
       \o Pt(t3, p.high_temp, "first_cycle_high_end")
       \o (IF d2 # 0 THEN Pt(t4, p.recovery_temp, "recovery_reached") ELSE <<>>)
       \o Pt(t5, p.recovery_temp, "recovery_end")

\* C9: with cycles = 1 the cycle is a first cycle: the high hold lasts
\* first_high_time, the points carry the first-cycle prefix and
\* last_high_time does not enter the profile.
C9_SingleCycleIsFirst ==
    (params.cycles = 1 /\ outcome = "ok") => profile = SingleCycleProfile(params)

C9_Witness ==
    /\ params.cycles = 1
    /\ outcome = "ok"
    /\ params.last_high_time # params.first_high_time
    /\ params.initial_temp # params.high_temp
    /\ \E i \in 2..Len(profile) :
          /\ profile[i].desc = "first_cycle_high_end"
          /\ profile[i].time = profile[i - 1].time + params.first_high_time

\* the description prefix of cycle c
Prefix(c, cycles) ==
    IF c = 0 THEN "first_cycle"
    ELSE IF c = cycles - 1 THEN "last_cycle"
    ELSE "middle_cycle" \o ToString(c)

Desc(i) == profile[i].desc

\* once the function has returned, point i exists
Follows(i) == outcome = "ok" => i <= Len(profile)

\* C10: after the high-hold end of a cycle other than the final one come the
\* ramp-to-low point (unless degenerate), the low-hold end and then the next
\* cycle; the final cycle emits no low point, its high-hold end is followed
\* directly by the recovery phase, which starts from high_temp.
C10_PhaseOrdering ==
    \A c \in 0..(params.cycles - 1) : \A i \in 1..Len(profile) :
        Desc(i) = Prefix(c, params.cycles) \o "_high_end" =>
            LET P == Prefix(c, params.cycles)
                N == Prefix(c + 1, params.cycles)
                k == IF params.low_temp # params.high_temp THEN i + 2 ELSE i + 1
            IN /\ profile[i].temp = params.high_temp
               /\ Follows(i + 1)
               /\ IF c < params.cycles - 1
                  THEN /\ Follows(k) /\ Follows(k + 1)
                       /\ (k = i + 2 /\ i + 1 <= Len(profile)) =>
                              /\ Desc(i + 1) = P \o "_low_reached"
                              /\ profile[i + 1].temp = params.low_temp
                       /\ k <= Len(profile) =>
                              /\ Desc(k) = P \o "_low_end"
                              /\ profile[k].temp = params.low_temp
                       /\ k + 1 <= Len(profile) =>
                              Desc(k + 1) \in {N \o "_high_reached", N \o "_high_end"}
                  ELSE /\ \A j \in 1..Len(profile) :
                              Desc(j) \notin {P \o "_low_reached", P \o "_low_end"}
                       /\ i + 1 <= Len(profile) =>
                              Desc(i + 1) =
                                  IF params.recovery_temp # params.high_temp
                                  THEN "recovery_reached" ELSE "recovery_end"

C10_Witness ==
    /\ outcome = "ok"
    /\ params.cycles = 3
    /\ params.low_temp # params.high_temp
    /\ params.recovery_temp # params.high_temp
    /\ \E i \in 1..(Len(profile) - 1) :
          /\ Desc(i) = "last_cycle_high_end"
          /\ Desc(i + 1) = "recovery_reached"
    /\ \E i \in 1..(Len(profile) - 2) :
          /\ Desc(i) = "middle_cycle1_high_end"
          /\ Desc(i + 1) = "middle_cycle1_low_reached"
          /\ Desc(i + 2) = "middle_cycle1_low_end"

----------------------------------------------------------------------------
(* Properties of the ramps *)

Prefixes == { Prefix(c, params.cycles) : c \in 0..(params.cycles - 1) }

HighReached == { P \o "_high_reached" : P \in Prefixes }
LowReached == { P \o "_low_reached" : P \in Prefixes }
RampDescs == HighReached \cup LowReached \cup {"recovery_reached"}
HoldDescs == { P \o "_high_end" : P \in Prefixes }
                 \cup { P \o "_low_end" : P \in Prefixes }
                 \cup {"initial_end", "recovery_end"}

\* C11: with high_temp = initial_temp the first ramp to high emits nothing
\* and takes no time: the third point is the first cycle's high-hold end at
\* initial_time + first_high_time and high_temp; and no ramp point ever has
\* the temperature of the point before it.
C11_DegenerateRamp ==
    /\ (params.cycles >= 1 /\ params.high_temp = params.initial_temp) =>
          /\ outcome = "ok" => Len(profile) >= 3
          /\ Len(profile) >= 3 =>
                profile[3] = [time |-> params.initial_time + params.first_high_time,
                              temp |-> params.high_temp,
                              desc |-> "first_cycle_high_end"]
    /\ \A i \in 2..Len(profile) :
          Desc(i) \in RampDescs => profile[i].temp # profile[i - 1].temp

C11_Witness ==
    /\ outcome = "ok"
    /\ params.cycles >= 2
    /\ params.high_temp = params.initial_temp
    /\ params.first_high_time > 0
    /\ params.initial_time > 0
    /\ Desc(3) = "first_cycle_high_end"
    /\ \E i \in 4..Len(profile) : Desc(i) \in RampDescs

\* the target temperature of the ramp a description names
Target(d) ==
    IF d \in HighReached THEN params.high_temp
    ELSE IF d \in LowReached THEN params.low_temp
    ELSE params.recovery_temp

\* C12: a ramp point follows its predecessor by |target - current| / heat_rate
\* when ascending and by |target - current| / cool_rate when descending, a
\* strictly positive advance when the rates are positive; the point has the
\* target temperature, which the hold point after it keeps.
C12_RateSelection ==
    \A i \in 2..Len(profile) :
        Desc(i) \in RampDescs =>
            LET diff == profile[i].temp - profile[i - 1].temp
                advance == profile[i].time - profile[i - 1].time
            IN /\ profile[i].temp = Target(Desc(i))
               /\ diff > 0 => advance * params.heat_rate = Abs(diff) * TimeDen
               /\ diff < 0 => advance * params.cool_rate = Abs(diff) * TimeDen
               /\ (params.heat_rate > 0 /\ params.cool_rate > 0) => advance > 0
               /\ Follows(i + 1)
               /\ i + 1 <= Len(profile) =>
                     /\ Desc(i + 1) \in HoldDescs
                     /\ profile[i + 1].temp = Target(Desc(i))

C12_Witness ==
    /\ outcome = "ok"
    /\ params.heat_rate > 0 /\ params.cool_rate > 0
    /\ params.heat_rate # params.cool_rate
    /\ \E i \in 2..Len(profile) :
          /\ Desc(i) \in HighReached
          /\ profile[i].temp > profile[i - 1].temp
    /\ \E i \in 2..Len(profile) :
          /\ Desc(i) \in LowReached
          /\ profile[i].temp < profile[i - 1].temp
    /\ \E i \in 2..Len(profile) :
          /\ Desc(i) = "recovery_reached"
          /\ profile[i].temp < profile[i - 1].temp

----------------------------------------------------------------------------
(* Separation of the two axes' collision records *)

\* two temperature-axis positions closer than 3% of the temperature range
NearY(y1, y2) ==
    100 * Abs(y1 - y2) < 3 * (YLim(chart_profile)[2] - YLim(chart_profile)[1])

\* the time label of key point j is bumped exactly when an earlier
\* first-tier time label is near it
TimeTierByTimeLabels(j) ==
    time_labels[j].tier = 6 <=>
        \E i \in 1..(j - 1) : /\ time_labels[i].tier = 2
                              /\ Near(time_labels[i].x, time_labels[j].x)

\* the temperature label of key point j is bumped exactly when an earlier
\* first-tier temperature label is near it
TempTierByTempLabels(j) ==
    temp_labels[j].tier = 6 <=>
        \E i \in 1..(j - 1) : /\ temp_labels[i].tier = 2
                              /\ NearY(temp_labels[i].y, temp_labels[j].y)

\* C13: the tier of a time-axis label depends only on the earlier committed
\* time-axis labels and the tier of a temperature-axis label only on the
\* earlier committed temperature-axis labels; a label of one axis never
\* bumps a label of the other.
C13_AxesSeparate ==
    \A j \in 1..Len(time_labels) :
        TimeTierByTimeLabels(j) /\ TempTierByTempLabels(j)

----------------------------------------------------------------------------
(* Inputs the calculation does not read *)

\* The whole calculation as a function of the configuration, phase by
\* phase: a state is the profile so far, the current time and temperature
\* and whether a division by zero has ended the run.
RefRamp(st, target, desc, p) ==
    LET temp_diff == target - st.temp
        rate == IF temp_diff > 0 THEN p.heat_rate ELSE p.cool_rate
    IN IF ~st.ok \/ temp_diff = 0 THEN st
       ELSE IF rate = 0 THEN [st EXCEPT !.ok = FALSE]
       ELSE LET t == st.time + (Abs(temp_diff) * TimeDen) \div rate
            IN [st EXCEPT !.time = t, !.temp = target,
                          !.prof = Append(@, [time |-> t, temp |-> target,
                                              desc |-> desc])]

RefHold(st, duration, desc) ==
    IF ~st.ok THEN st
    ELSE LET t == st.time + duration
         IN [st EXCEPT !.time = t,
                       !.prof = Append(@, [time |-> t, temp |-> st.temp,
                                           desc |-> desc])]

RECURSIVE RefCycles(_, _, _)
RefCycles(st, c, p) ==
    IF c >= p.cycles THEN st
    ELSE LET ht == IF c = 0 THEN p.first_high_time
                   ELSE IF c = p.cycles - 1 THEN p.last_high_time
                   ELSE p.middle_high_time
             lt == IF c = 0 THEN p.first_low_time
                   ELSE IF c = p.cycles - 1 THEN p.last_low_time
                   ELSE p.middle_low_time
             P == Prefix(c, p.cycles)
             s1 == RefRamp(st, p.high_temp, P \o "_high_reached", p)
             s2 == RefHold(s1, ht, P \o "_high_end")
             s3 == RefRamp(s2, p.low_temp, P \o "_low_reached", p)
             s4 == RefHold(s3, lt, P \o "_low_end")
         IN RefCycles(IF c < p.cycles - 1 THEN s4 ELSE s2, c + 1, p)

\* what calculate_temperature_profile returns for p
Reference(p) ==
    LET s0 == [prof |-> <<[time |-> 0, temp |-> p.initial_temp,
                           desc |-> "initial_start"]>>,
               time |-> 0, temp |-> p.initial_temp, ok |-> TRUE]
        s1 == RefHold(s0, p.initial_time, "initial_end")
        s2 == RefCycles(s1, 0, p)
        s3 == RefRamp(s2, p.recovery_temp, "recovery_reached", p)
        s4 == RefHold(s3, p.recovery_time, "recovery_end")
    IN IF s4.ok
       THEN <<s4.prof, [i \in 1..Len(s4.prof) |-> i - 1]>>
       ELSE <<"None", "None">>

\* p with the inputs in question set to fixed values: last_low_time and the
\* tolerances always, the middle-cycle durations when cycles <= 2
Masked(p) ==
    LET q == [p EXCEPT !.last_low_time = 0, !.high_tolerance = 0,
                       !.low_tolerance = 0]
    IN IF p.cycles <= 2
       THEN [q EXCEPT !.middle_high_time = 0, !.middle_low_time = 0]
       ELSE q

\* C14: what the calculation returns is determined by the configuration with
\* last_low_time, high_tolerance and low_tolerance (and, for cycles <= 2,
\* middle_high_time and middle_low_time) blanked out, so two configurations
\* that differ only in those inputs return identical profiles and key points.
C14_UnusedInputs ==
    outcome \in {"ok", "error"} => Returned = Reference(Masked(params))

C14_Witness ==
    /\ outcome = "ok"
    /\ pc = "returned"
    /\ params.cycles = 2
    /\ params.last_low_time = 24
    /\ params.high_tolerance = 2
    /\ params.low_tolerance = 2
    /\ params.middle_high_time = 6
    /\ params.middle_low_time = 12
    /\ Masked(params) # params
    /\ Len(profile) = 10

====
